---------------------------- MODULE Spec2Model ----------------------------
(***************************************************************************)
(* A model of calibre's HTML -> PDF writer,                                *)
(* src/calibre/ebooks/pdf/html_writer.py.                                  *)
(*                                                                         *)
(* Six specifications share this module:                                   *)
(*   SpecAnchors       make_anchors_unique: the id renaming loop and the   *)
(*                     link rewriting loop over one container;             *)
(*   SpecAnchorsTwice  make_anchors_unique run once more on its result;    *)
(*   SpecGroups        create_margin_groups over one spine;                *)
(*   SpecToc           add_toc_links over one ToC and one list of groups;  *)
(*   SpecLayout        the layouts render_name builds, group after group;  *)
(*   Spec              convert, from the container to the output, driving  *)
(*                     the Renderer's event loop.                          *)
(*                                                                         *)
(* Text is modelled as a sequence of tokens: a url such as "d/s2#x" is     *)
(* <<"d", "/", "s2", "#", "x">>, a container name such as "d/s2" is         *)
(* <<"d", "/", "s2">>.  An id is one string.                               *)
(***************************************************************************)
EXTENDS Integers, Sequences, FiniteSets, TLC

VARIABLES
    \* ---- make_anchors_unique ----
    ids,        \* spine name -> the ids of its elements carrying one, in document order
    links,      \* file name -> the one link the file holds (a url)
    mapping,    \* (name, raw id) -> new id
    count,      \* the id counter
    ei,         \* elements visited by the renaming loop so far
    fi,         \* files visited by the link loop so far
    ids0,       \* history: ids before the pass
    links0,     \* history: links before the pass
    pass,       \* which run of make_anchors_unique this is, 0 when none
    \* ---- create_margin_groups ----
    spine_attrs,   \* per spine section, its data-calibre-pdf-output-page-margins attribute
    gi,            \* spine sections visited so far
    groups,        \* the groups appended so far
    current_group, \* the group being collected
    merged,        \* container: name -> the sections whose content the file holds
    gdone,         \* create_margin_groups has returned
    \* ---- convert and the Renderer ----
    container_log,        \* convert: what was done to the markup container, and the marker's id in it
    layout,           \* convert: its page_layout, the base layout
    margin_groups,    \* convert: group[0] of every margin group, <<name, margins>>
    cpc,              \* convert: where it is
    gidx,             \* convert: groups the loop has finished
    doc,              \* convert: the document render_name returned
    locs,             \* convert: the table get_anchor_locations returned
    pdf_doc,          \* convert: the accumulating document
    anchor_locations, \* convert: the accumulated anchor table
    num_pages,        \* convert: the running page count
    output,           \* convert: what was returned or written
    failure,          \* convert: the exception that ended it
    handlers,         \* the installed signal handlers
    original_signal_handlers,  \* Renderer.original_signal_handlers: unset or saved
    loop,             \* the event loop: idle, running, exited
    ret,              \* the code the event loop exited with
    stage,            \* Renderer: loading, settling, printing, printed
    settle_time,      \* Renderer.settle_time
    timer,            \* the single-shot timer: milliseconds left, -1 when not armed
    waited,           \* history: milliseconds passed since the load finished
    page_layout,      \* Renderer.page_layout: the margins in effect
    pdf_data,         \* Renderer.pdf_data
    pipe,             \* the signal pipe holds unread bytes
    observed,         \* history: signal_received read the pipe in this invocation
    rendered,         \* history: the data printing_done delivered, per finished render
    \* ---- add_toc_links ----
    toc,              \* the ToC items in iterdescendants order, [dest, frag]
    toc_groups,       \* the margin groups: group[0][0] of each, a section name
    uuid,             \* the marker id uuid4() gave
    name_anchor_map,  \* destination -> the set of fragments gathered so far
    ti,               \* ToC items visited so far
    tgi,              \* groups visited so far
    body,             \* container: section name -> the children of its body
    dirty,            \* container: the names marked dirty
    toc_ret           \* the value add_toc_links returned, "" before it returns

anchorVars == <<ids, links, mapping, count, ei, fi, ids0, links0, pass>>
groupVars == <<spine_attrs, gi, groups, current_group, merged, gdone>>
convertVars == <<container_log, layout, margin_groups, cpc, gidx, doc, locs, pdf_doc, anchor_locations,
                 num_pages, output, failure, rendered>>
rendererVars == <<handlers, original_signal_handlers, loop, ret, stage, settle_time, timer, waited,
                  page_layout, pdf_data, pipe, observed>>
tocVars == <<toc, toc_groups, uuid, name_anchor_map, ti, tgi, body, dirty, toc_ret>>
vars == <<anchorVars, groupVars, convertVars, rendererVars, tocVars>>

(***************************************************************************)
(* Bounds.                                                                 *)
(***************************************************************************)
MaxElems == 3     \* elements carrying an id, over the whole document
MaxSpine == 3     \* sections in the spine that create_margin_groups walks
MaxGroups == 2    \* margin groups that convert renders
MaxPages == 3     \* pages of one rendered group, the marker page included
MaxToc == 3       \* items of the ToC that add_toc_links walks

(***************************************************************************)
(* The container of the anchor pass: two spine sections, one of them in a  *)
(* sub-directory, and one file that is not in the spine.                   *)
(***************************************************************************)
S1 == <<"s1">>
S2 == <<"d", "/", "s2">>
NavFile == <<"toc">>

spine_names == <<S1, S2>>
mime_map == <<S1, S2, NavFile>>

RawIds == {"x", "a1", "a3"}
LinkFrags == {"x", "a1", "zz"}
LinkHrefs == { <<"s1">>, <<"d", "/", "s2">>, <<"s2">>, <<"..", "/", "s1">>,
               <<"http:", "/", "s1">> }
Urls == { <<>>, <<"s1">> }
          \cup { <<"#", f>> : f \in LinkFrags }
          \cup { h \o <<"#", f>> : h \in LinkHrefs, f \in LinkFrags }

NoName == <<>>
Schemes == {"http:"}

\* ------------------------------------------------------------ text helpers

RECURSIVE Text(_)
\* The string a token sequence spells.
Text(toks) == IF toks = <<>> THEN "" ELSE Head(toks) \o Text(Tail(toks))

\* 'a{}'.format(count)
AnchorId(n) == "a" \o ToString(n)

\* '#' in url
HasHash(url) == \E i \in 1..Len(url) : url[i] = "#"

\* url.startswith('#')
StartsWithHash(url) == url # <<>> /\ url[1] = "#"

\* url.partition('#')[::2]: the text before and after the first '#'
partition(url) ==
    LET i == CHOOSE k \in 1..Len(url) :
                 url[k] = "#" /\ \A j \in 1..(k - 1) : url[j] # "#"
    IN  <<SubSeq(url, 1, i - 1), SubSeq(url, i + 1, Len(url))>>

\* ------------------------------------------------- the container's resolver

Segments(path) == SelectSeq(path, LAMBDA t : t # "/")

RECURSIVE JoinPath(_)
JoinPath(segs) ==
    IF Len(segs) <= 1 THEN segs
    ELSE <<Head(segs), "/">> \o JoinPath(Tail(segs))

RECURSIVE Normalize(_, _)
Normalize(segs, acc) ==
    IF segs = <<>> THEN acc
    ELSE IF Head(segs) = ".." /\ acc # <<>> /\ acc[Len(acc)] # ".."
         THEN Normalize(Tail(segs), SubSeq(acc, 1, Len(acc) - 1))
         ELSE Normalize(Tail(segs), Append(acc, Head(segs)))

\* The directory of a name, as segments.
DirOf(name) == LET s == Segments(name) IN SubSeq(s, 1, Len(s) - 1)

\* container.href_to_name(href, base): href is resolved relative to the
\* directory of base; a url with a scheme or with no path resolves to nothing.
href_to_name(href, base) ==
    IF href = <<>> \/ Head(href) \in Schemes THEN NoName
    ELSE JoinPath(Normalize(DirOf(base) \o Segments(href), <<>>))

\* ------------------------------------------------------ make_anchors_unique

\* Variant of replacer that keys the lookup by the fragment alone.
replacer_anyfile(url, base, map) ==
    IF url = <<>> THEN url
    ELSE IF ~HasHash(url) THEN url
    ELSE LET frag == Text(IF StartsWithHash(url) THEN Tail(url) ELSE partition(url)[2])
             hits == {k \in DOMAIN map : k[2] = frag}
         IN  IF hits = {} THEN url
             ELSE LET new_frag == map[CHOOSE k \in hits : TRUE]
                  IN  IF StartsWithHash(url) THEN <<"#", new_frag>>
                      ELSE partition(url)[1] \o <<"#", new_frag>>

\* replacer(url), with the closure's base and mapping as parameters.
replacer(url, base, map) ==
    IF url = <<>> THEN url
    ELSE IF ~HasHash(url) THEN url
    ELSE LET href == IF StartsWithHash(url) THEN base ELSE partition(url)[1]
             frag == Text(IF StartsWithHash(url) THEN Tail(url) ELSE partition(url)[2])
             name == href_to_name(href, base)
             key  == <<name, frag>>
         IN  IF name = NoName THEN url
             ELSE IF key \notin DOMAIN map THEN url
             ELSE IF StartsWithHash(url) THEN <<"#", map[key]>>
             ELSE href \o <<"#", map[key]>>

\* The elements carrying an id, in traversal order: spine order, then
\* document order; each is <<spine name, index in its section>>.
RECURSIVE ElemsFrom(_, _)
ElemsFrom(book, s) ==
    IF s > Len(spine_names) THEN <<>>
    ELSE [i \in 1..Len(book[spine_names[s]]) |-> <<spine_names[s], i>>]
         \o ElemsFrom(book, s + 1)

Elems(book) == ElemsFrom(book, 1)

\* The ids the elements carry, in traversal order.
AllIds(book) == [i \in 1..Len(Elems(book)) |-> book[Elems(book)[i][1]][Elems(book)[i][2]]]

\* The variables of make_anchors_unique at rest.
AnchorsIdle ==
    /\ ids = <<>> /\ links = <<>> /\ mapping = <<>> /\ count = 0
    /\ ei = 0 /\ fi = 0 /\ ids0 = <<>> /\ links0 = <<>> /\ pass = 0

\* The variables of create_margin_groups at rest.
GroupsIdle ==
    /\ spine_attrs = <<>> /\ gi = 0 /\ groups = <<>> /\ current_group = <<>>
    /\ merged = <<>> /\ gdone = FALSE

\* The variables of convert and of the Renderer at rest.
ConvertIdle ==
    /\ container_log = <<>> /\ layout = <<>> /\ timer = -1 /\ waited = 0
    /\ margin_groups = <<>> /\ cpc = "idle" /\ gidx = 0 /\ doc = <<>> /\ locs = <<>>
    /\ pdf_doc = <<>> /\ anchor_locations = <<>> /\ num_pages = 0
    /\ output = <<>> /\ failure = "" /\ rendered = <<>>
    /\ handlers = "original" /\ original_signal_handlers = "unset" /\ loop = "idle" /\ ret = 0 /\ stage = "idle"
    /\ settle_time = 0 /\ page_layout = <<>> /\ pdf_data = <<>>
    /\ pipe = FALSE /\ observed = FALSE

\* The variables of add_toc_links at rest.
TocIdle ==
    /\ toc = <<>> /\ toc_groups = <<>> /\ uuid = "" /\ name_anchor_map = <<>>
    /\ ti = 0 /\ tgi = 0 /\ body = <<>> /\ dirty = {} /\ toc_ret = ""

Docs ==
    { d \in [ {S1, S2} -> UNION { [1..n -> RawIds] : n \in 0..MaxElems } ] :
        Len(d[S1]) + Len(d[S2]) <= MaxElems }

InitAnchors ==
    /\ GroupsIdle
    /\ ConvertIdle
    /\ TocIdle
    /\ ids \in Docs
    /\ \E f \in {mime_map[i] : i \in 1..Len(mime_map)}, u \in Urls :
           links = [g \in {mime_map[i] : i \in 1..Len(mime_map)} |->
                       IF g = f THEN u ELSE <<>>]
    /\ mapping = <<>>
    /\ count = 0
    /\ ei = 0
    /\ fi = 0
    /\ ids0 = ids
    /\ links0 = links
    /\ pass = 1

\* One iteration of the renaming loop.
AssignId ==
    /\ ei < Len(Elems(ids))
    /\ LET e   == Elems(ids)[ei + 1]
           key == <<e[1], ids[e[1]][e[2]]>>
       IN  /\ count' = count + 1
           /\ IF key \notin DOMAIN mapping
              THEN /\ mapping' = mapping @@ (key :> AnchorId(count + 1))
                   /\ ids' = [ids EXCEPT ![e[1]][e[2]] = AnchorId(count + 1)]
              ELSE UNCHANGED <<mapping, ids>>
    /\ ei' = ei + 1
    /\ UNCHANGED <<links, fi, ids0, links0, pass>>
    /\ UNCHANGED <<groupVars, convertVars, rendererVars, tocVars>>

\* One iteration of the link loop: container.replace_links(name, replacer).
ReplaceLinks ==
    /\ ei = Len(Elems(ids))
    /\ fi < Len(mime_map)
    /\ LET name == mime_map[fi + 1]
       IN  links' = [links EXCEPT ![name] = replacer(links[name], name, mapping)]
    /\ fi' = fi + 1
    /\ UNCHANGED <<ids, mapping, count, ei, ids0, links0, pass>>
    /\ UNCHANGED <<groupVars, convertVars, rendererVars, tocVars>>

\* make_anchors_unique has returned.
AnchorsDone == ei = Len(Elems(ids)) /\ fi = Len(mime_map)

NextAnchors == AssignId \/ ReplaceLinks

SpecAnchors == InitAnchors /\ [][NextAnchors]_vars

\* make_anchors_unique is called once more on the container it has processed.
RunAgain ==
    /\ AnchorsDone
    /\ pass = 1
    /\ pass' = 2
    /\ mapping' = <<>>
    /\ count' = 0
    /\ ei' = 0
    /\ fi' = 0
    /\ ids0' = ids
    /\ links0' = links
    /\ UNCHANGED <<ids, links>>
    /\ UNCHANGED <<groupVars, convertVars, rendererVars, tocVars>>

NextAnchorsTwice == AssignId \/ ReplaceLinks \/ RunAgain

SpecAnchorsTwice == InitAnchors /\ [][NextAnchorsTwice]_vars

\* ----------------------------------------------------- create_margin_groups

\* The attribute as root.get() returns it: absent (None), or its text, here
\* the empty text or a JSON object written as a list of key/value pairs.
AttrAbsent == [kind |-> "absent", pairs |-> <<>>]
AttrEmpty  == [kind |-> "empty", pairs |-> <<>>]
AttrJson(pairs) == [kind |-> "json", pairs |-> pairs]

Attrs == { AttrAbsent, AttrEmpty, AttrJson(<<>>),
           AttrJson(<< <<"top", 36>> >>),
           AttrJson(<< <<"top", 36>>, <<"left", 10>> >>),
           AttrJson(<< <<"left", 10>>, <<"top", 36>> >>) }

\* Python values of the margins variable.
None == [kind |-> "None", val |-> <<>>]
EmptyStr == [kind |-> "str", val |-> <<>>]
Dict(f) == [kind |-> "dict", val |-> f]

\* json.loads of an object: the dict of its pairs, a later pair overriding
\* an earlier one with the same key.
json_loads(pairs) ==
    Dict([k \in {pairs[i][1] : i \in 1..Len(pairs)} |->
            pairs[CHOOSE i \in 1..Len(pairs) :
                      /\ pairs[i][1] = k
                      /\ \A j \in (i + 1)..Len(pairs) : pairs[j][1] # k][2]])

\* margins = root.get(...); if margins: margins = json.loads(margins)
Margins(attr) ==
    IF attr.kind = "absent" THEN None
    ELSE IF attr.kind = "empty" THEN EmptyStr
    ELSE json_loads(attr.pairs)

\* The name of the i-th spine section.
SectionName(i) == "p" \o ToString(i)

\* names = [name for (name, margins) in group]
NamesOf(group) == [i \in 1..Len(group) |-> group[i][1]]

\* merge_html(container, names, names[0]): the first file receives the
\* content of all of them, in order; the others leave the container.
merge_html(container, names) ==
    [n \in DOMAIN container |->
        IF n = names[1] THEN names
        ELSE IF \E i \in 2..Len(names) : names[i] = n THEN <<>>
        ELSE container[n]]

\* merge_group(group): the value returned.
merge_group(group) ==
    IF Len(group) > 1 THEN << <<group[1][1], group[1][2]>> >> ELSE group

\* merge_group(group): the container it leaves.
merge_group_container(container, group) ==
    IF Len(group) > 1 THEN merge_html(container, NamesOf(group)) ELSE container

InitGroups ==
    /\ AnchorsIdle
    /\ ConvertIdle
    /\ TocIdle
    /\ spine_attrs \in UNION { [1..n -> Attrs] : n \in 0..MaxSpine }
    /\ gi = 0
    /\ groups = <<>>
    /\ current_group = <<>>
    /\ merged = [n \in {SectionName(i) : i \in 1..Len(spine_attrs)} |-> <<n>>]
    /\ gdone = FALSE

\* Variant of GroupStep that does not empty current_group after appending it.
GroupStep_NoReset ==
    /\ ~gdone
    /\ gi < Len(spine_attrs)
    /\ LET name    == SectionName(gi + 1)
           margins == Margins(spine_attrs[gi + 1])
           flush   == /\ current_group # <<>>
                      /\ current_group[Len(current_group)][2] # margins
       IN  /\ groups' = IF flush THEN Append(groups, merge_group(current_group))
                                 ELSE groups
           /\ merged' = IF flush THEN merge_group_container(merged, current_group)
                                 ELSE merged
           /\ current_group' = Append(current_group, <<name, margins>>)
    /\ gi' = gi + 1
    /\ UNCHANGED <<spine_attrs, gdone>>
    /\ UNCHANGED <<anchorVars, convertVars, rendererVars, tocVars>>

\* One iteration of the loop over container.spine_names.
GroupStep ==
    /\ ~gdone
    /\ gi < Len(spine_attrs)
    /\ LET name    == SectionName(gi + 1)
           margins == Margins(spine_attrs[gi + 1])
           flush   == /\ current_group # <<>>
                      /\ current_group[Len(current_group)][2] # margins
       IN  /\ groups' = IF flush THEN Append(groups, merge_group(current_group))
                                 ELSE groups
           /\ merged' = IF flush THEN merge_group_container(merged, current_group)
                                 ELSE merged
           /\ current_group' = Append(IF flush THEN <<>> ELSE current_group,
                                       <<name, margins>>)
    /\ gi' = gi + 1
    /\ UNCHANGED <<spine_attrs, gdone>>
    /\ UNCHANGED <<anchorVars, convertVars, rendererVars, tocVars>>

\* After the loop: the last group is appended and the groups are returned.
GroupFinish ==
    /\ ~gdone
    /\ gi = Len(spine_attrs)
    /\ groups' = IF current_group # <<>>
                  THEN Append(groups, merge_group(current_group)) ELSE groups
    /\ merged' = IF current_group # <<>>
                  THEN merge_group_container(merged, current_group) ELSE merged
    /\ gdone' = TRUE
    /\ UNCHANGED <<spine_attrs, gi, current_group>>
    /\ UNCHANGED <<anchorVars, convertVars, rendererVars, tocVars>>

NextGroups == GroupStep \/ GroupFinish

SpecGroups == InitGroups /\ [][NextGroups]_vars

\* ------------------------------------------------------------ the Renderer

OK == 0
LOAD_FAILED == 1
KILL_SIGNAL == 2

\* Exit codes of the event loop that are none of the three above.
OtherCodes == {3}

MarkerId == "uuid"
NoData == <<>>
NoDoc == <<>>

Dims == {"left", "top", "right", "bottom"}
BaseLayout == [d \in Dims |-> 72]

\* if margins: None, '' and {} are false.
Truthy(margins) == margins.kind = "dict" /\ DOMAIN margins.val # {}

\* render_name: the page layout handed to the renderer.
render_layout(margins, base) ==
    IF Truthy(margins)
    THEN [d \in Dims |-> IF d \in DOMAIN margins.val THEN margins.val[d] ELSE base[d]]
    ELSE base

\* Variant of render_name_layouts that sets the margins on the caller's
\* layout object instead of on a copy of it.
render_name_layouts_inplace(margins, base) ==
    [renderer |-> render_layout(margins, base), caller |-> render_layout(margins, base)]

\* render_name's page_layout: the layout handed to the renderer, and the
\* caller's layout object after the call.  QPageLayout(page_layout) copies.
render_name_layouts(margins, base) ==
    [renderer |-> render_layout(margins, base), caller |-> base]

\* int(1000 * self.settle_time): the milliseconds of one unit of settle_time.
Millis == 1000

\* What the renderer may print for group g: up to MaxPages pages, the marker
\* anchor on one of them or missing, and at most one anchor of the content.
RenderedDocs(g) ==
    UNION { { [group |-> g, npages |-> P, anchors |-> mk @@ an] :
                mk \in {<<>>} \cup { (MarkerId :> <<m, 0, 0, 0>>) : m \in 1..P },
                an \in {<<>>} \cup { (AnchorId(g) :> <<q, 10, 20, 0>>) : q \in 1..P } } :
            P \in 1..MaxPages }

\* podofo: PDFDoc.load
load(data) ==
    [pages |-> [p \in 1..data.npages |-> <<data.group, p>>], anchors |-> data.anchors]

\* podofo: PDFDoc.delete_page(num), num counted from 0
delete_page(pages, num) ==
    [k \in 1..(Len(pages) - 1) |-> IF k <= num THEN pages[k] ELSE pages[k + 1]]

RECURSIVE delete_pages(_, _, _)
\* for r in range(r, stop, -1): pdf_doc.delete_page(r - 1)
delete_pages(pages, r, stop) ==
    IF r <= stop THEN pages
    ELSE delete_pages(delete_page(pages, r - 1), r - 1, stop)

\* Variant of strip_marker_pages whose range stops one page early.
strip_marker_pages_keep_marker(pages, toc_pagenum) ==
    delete_pages(pages, Len(pages), toc_pagenum)

\* for r in range(pdf_doc.page_count(), toc_pagenum - 1, -1): delete_page(r - 1)
strip_marker_pages(pages, toc_pagenum) ==
    delete_pages(pages, Len(pages), toc_pagenum - 1)

\* The table get_anchor_locations builds from the anchors left after the pop.
shift_anchors(anchors, first_page_num) ==
    [a \in DOMAIN anchors |->
        <<anchors[a][1] + first_page_num - 1, anchors[a][2], anchors[a][3], anchors[a][4]>>]

\* dict.update
update(old, new) ==
    [a \in DOMAIN old \cup DOMAIN new |-> IF a \in DOMAIN new THEN new[a] ELSE old[a]]

\* The margin groups convert may get from create_margin_groups: adjacent
\* groups differ in their margins.
GroupLists ==
    { [i \in 1..n |-> <<SectionName(i),
                        IF (i + first) % 2 = 0 THEN None ELSE Dict(("top" :> 36))>>] :
        n \in 0..MaxGroups, first \in 0..1 }

Init ==
    /\ AnchorsIdle
    /\ GroupsIdle
    /\ TocIdle
    /\ container_log = [ops |-> <<>>, marker |-> "", committed |-> FALSE]
    /\ layout = <<>>
    /\ margin_groups = <<>>
    /\ cpc = "start"
    /\ gidx = 0 /\ doc = NoDoc /\ locs = <<>>
    /\ pdf_doc = NoDoc /\ anchor_locations = <<>> /\ num_pages = 0
    /\ output = <<>> /\ failure = "" /\ rendered = <<>>
    /\ handlers = "original" /\ original_signal_handlers = "unset" /\ loop = "idle" /\ ret = OK /\ stage = "idle"
    /\ settle_time = 0 /\ page_layout = <<>> /\ pdf_data = NoData
    /\ timer = -1 /\ waited = 0
    /\ pipe = FALSE /\ observed = FALSE

\* What the steps of convert before the renderer leave unchanged.
PrepareFrame ==
    /\ UNCHANGED <<layout, gidx, doc, locs, pdf_doc, anchor_locations, num_pages,
                   output, failure, rendered>>
    /\ UNCHANGED <<tocVars, anchorVars, groupVars, rendererVars>>

\* convert, line 284: make_anchors_unique(container) gives every element
\* that carries an id a new one, a marker block included if there is one.
MakeAnchorsUnique ==
    /\ cpc = "start"
    /\ container_log' = [container_log EXCEPT !.ops = Append(@, "make_anchors_unique"),
                                      !.marker = IF @ = "" THEN "" ELSE AnchorId(1)]
    /\ cpc' = "anchors"
    /\ UNCHANGED margin_groups
    /\ PrepareFrame

\* convert, line 285: create_margin_groups(container)
CreateMarginGroups ==
    /\ cpc = "anchors"
    /\ margin_groups' \in GroupLists
    /\ container_log' = [container_log EXCEPT !.ops = Append(@, "create_margin_groups")]
    /\ cpc' = "groups"
    /\ PrepareFrame

\* convert, lines 286-287: toc_uuid = add_toc_links(container, toc, margin_groups)
AddTocLinks ==
    /\ cpc = "groups"
    /\ container_log' = [container_log EXCEPT !.ops = Append(@, "add_toc_links"),
                                      !.marker = MarkerId]
    /\ cpc' = "toc"
    /\ UNCHANGED margin_groups
    /\ PrepareFrame

\* Variant of Commit that goes on without container.commit().
Commit_Skipped ==
    /\ cpc = "toc"
    /\ cpc' = "renderer"
    /\ UNCHANGED <<container_log, margin_groups>>
    /\ PrepareFrame

\* convert, line 288: container.commit()
Commit ==
    /\ cpc = "toc"
    /\ container_log' = [container_log EXCEPT !.ops = Append(@, "commit"), !.committed = TRUE]
    /\ cpc' = "renderer"
    /\ UNCHANGED margin_groups
    /\ PrepareFrame

\* calibre.gui2.setup_unix_signals: the handlers it leaves installed.  It
\* replaces the handlers and hands back the original ones.
setup_unix_signals == "ignored"

\* convert, lines 290-294: Renderer(opts) and the loop's variables.  The
\* constructor calls setup_unix_signals unless the platform is Windows.
NewRenderer ==
    /\ cpc = "renderer"
    /\ \E iswindows \in BOOLEAN :
          IF iswindows
          THEN UNCHANGED <<handlers, original_signal_handlers>>
          ELSE /\ handlers' = setup_unix_signals
               /\ original_signal_handlers' = "saved"
    /\ settle_time' = 0
    /\ pdf_doc' = NoDoc
    /\ anchor_locations' = <<>>
    /\ num_pages' = 0
    /\ layout' = BaseLayout
    /\ cpc' = "next"
    /\ UNCHANGED <<container_log, margin_groups, gidx, doc, locs, output, failure, rendered>>
    /\ UNCHANGED <<loop, ret, stage, timer, waited, page_layout, pdf_data, pipe, observed>>
    /\ UNCHANGED <<tocVars, anchorVars, groupVars>>

\* Variant of RenderName that leaves settle_time at convert_html_file's default.
RenderName_NoSettle ==
    /\ cpc = "next"
    /\ gidx < Len(margin_groups)
    /\ page_layout' = render_name_layouts(margin_groups[gidx + 1][2], layout).renderer
    /\ layout' = render_name_layouts(margin_groups[gidx + 1][2], layout).caller
    /\ settle_time' = 0
    /\ pdf_data' = NoData
    /\ IF original_signal_handlers = "unset"
       THEN /\ cpc' = "aborted"
            /\ failure' = "AttributeError"
            /\ UNCHANGED <<stage, timer, waited, handlers, loop, observed>>
       ELSE /\ stage' = "loading"
            /\ timer' = -1
            /\ waited' = 0
            /\ handlers' = "ignored"
            /\ loop' = "running"
            /\ observed' = FALSE
            /\ cpc' = "loop"
            /\ UNCHANGED failure
    /\ UNCHANGED <<container_log, margin_groups, gidx, doc, locs, pdf_doc, anchor_locations,
                   num_pages, output, rendered>>
    /\ UNCHANGED <<original_signal_handlers, ret, pipe>>
    /\ UNCHANGED <<tocVars, anchorVars, groupVars>>

\* render_name up to convert_html_file's run_loop: the layout, the reset of
\* pdf_data, setUrl, block_signal_handlers and the entry into the event loop.
\* block_signal_handlers fails when original_signal_handlers was never set.
RenderName ==
    /\ cpc = "next"
    /\ gidx < Len(margin_groups)
    /\ page_layout' = render_name_layouts(margin_groups[gidx + 1][2], layout).renderer
    /\ layout' = render_name_layouts(margin_groups[gidx + 1][2], layout).caller
    /\ settle_time' = 1
    /\ pdf_data' = NoData
    /\ IF original_signal_handlers = "unset"
       THEN /\ cpc' = "aborted"
            /\ failure' = "AttributeError"
            /\ UNCHANGED <<stage, timer, waited, handlers, loop, observed>>
       ELSE /\ stage' = "loading"
            /\ timer' = -1
            /\ waited' = 0
            /\ handlers' = "ignored"
            /\ loop' = "running"
            /\ observed' = FALSE
            /\ cpc' = "loop"
            /\ UNCHANGED failure
    /\ UNCHANGED <<container_log, margin_groups, gidx, doc, locs, pdf_doc, anchor_locations,
                   num_pages, output, rendered>>
    /\ UNCHANGED <<original_signal_handlers, ret, pipe>>
    /\ UNCHANGED <<tocVars, anchorVars, groupVars>>

\* Renderer.load_finished(ok)
load_finished ==
    /\ loop = "running"
    /\ stage = "loading"
    /\ \E ok \in BOOLEAN :
          IF ~ok
          THEN /\ loop' = "exited"
               /\ ret' = LOAD_FAILED
               /\ stage' = "failed"
               /\ UNCHANGED timer
          ELSE /\ stage' = "settling"
               /\ timer' = Millis * settle_time
               /\ UNCHANGED <<loop, ret>>
    /\ UNCHANGED <<handlers, original_signal_handlers, settle_time, waited, page_layout, pdf_data, pipe, observed>>
    /\ UNCHANGED <<tocVars, anchorVars, groupVars, convertVars>>

\* Time passes while the event loop runs and the settle timer is armed.
TimePasses ==
    /\ loop = "running"
    /\ timer >= Millis
    /\ timer' = timer - Millis
    /\ waited' = waited + Millis
    /\ UNCHANGED <<handlers, original_signal_handlers, loop, ret, stage, settle_time, page_layout, pdf_data, pipe, observed>>
    /\ UNCHANGED <<tocVars, anchorVars, groupVars, convertVars>>

\* Renderer.print_to_pdf, called by the settle timer when it expires
print_to_pdf ==
    /\ loop = "running"
    /\ stage = "settling"
    /\ timer = 0
    /\ timer' = -1
    /\ stage' = "printing"
    /\ UNCHANGED <<handlers, original_signal_handlers, loop, ret, settle_time, waited, page_layout, pdf_data, pipe, observed>>
    /\ UNCHANGED <<tocVars, anchorVars, groupVars, convertVars>>

\* Variant of printing_done that does not keep the data it is handed.
printing_done_NoStore ==
    /\ loop = "running"
    /\ stage = "printing"
    /\ UNCHANGED pdf_data
    /\ loop' = "exited"
    /\ ret' = OK
    /\ stage' = "printed"
    /\ UNCHANGED <<handlers, original_signal_handlers, settle_time, timer, waited, page_layout, pipe, observed>>
    /\ UNCHANGED <<tocVars, anchorVars, groupVars, convertVars>>

\* Renderer.printing_done(pdf_data)
printing_done ==
    /\ loop = "running"
    /\ stage = "printing"
    /\ \E data \in RenderedDocs(gidx + 1) : pdf_data' = data
    /\ loop' = "exited"
    /\ ret' = OK
    /\ stage' = "printed"
    /\ UNCHANGED <<handlers, original_signal_handlers, settle_time, timer, waited, page_layout, pipe, observed>>
    /\ UNCHANGED <<tocVars, anchorVars, groupVars, convertVars>>

\* A signal arrives while the event loop runs: its byte goes to the pipe.
SignalArrives ==
    /\ loop = "running"
    /\ ~pipe
    /\ pipe' = TRUE
    /\ UNCHANGED <<handlers, original_signal_handlers, loop, ret, stage, settle_time, timer, waited, page_layout, pdf_data, observed>>
    /\ UNCHANGED <<tocVars, anchorVars, groupVars, convertVars>>

\* Variant of signal_received that leaves the loop with OK.
signal_received_ok ==
    /\ loop = "running"
    /\ pipe
    /\ \E read_ok \in BOOLEAN :
          IF read_ok
          THEN /\ pipe' = FALSE
               /\ observed' = TRUE
               /\ loop' = "exited"
               /\ ret' = OK
          ELSE UNCHANGED <<pipe, observed, loop, ret>>
    /\ UNCHANGED <<handlers, original_signal_handlers, stage, settle_time, timer, waited, page_layout, pdf_data>>
    /\ UNCHANGED <<tocVars, anchorVars, groupVars, convertVars>>

\* Renderer.signal_received(read_fd): os.read either succeeds or raises
\* EnvironmentError.
signal_received ==
    /\ loop = "running"
    /\ pipe
    /\ \E read_ok \in BOOLEAN :
          IF read_ok
          THEN /\ pipe' = FALSE
               /\ observed' = TRUE
               /\ loop' = "exited"
               /\ ret' = KILL_SIGNAL
          ELSE UNCHANGED <<pipe, observed, loop, ret>>
    /\ UNCHANGED <<handlers, original_signal_handlers, stage, settle_time, timer, waited, page_layout, pdf_data>>
    /\ UNCHANGED <<tocVars, anchorVars, groupVars, convertVars>>

\* QApplication.exec_() returns a code that is none of OK, LOAD_FAILED and
\* KILL_SIGNAL.
UnknownExit ==
    /\ loop = "running"
    /\ loop' = "exited"
    /\ ret' \in OtherCodes
    /\ UNCHANGED <<handlers, original_signal_handlers, stage, settle_time, timer, waited, page_layout, pdf_data, pipe, observed>>
    /\ UNCHANGED <<tocVars, anchorVars, groupVars, convertVars>>

\* Variant of RunLoopReturn without the check for an unknown code.
RunLoopReturn_NoUnknownCheck ==
    /\ cpc = "loop"
    /\ loop = "exited"
    /\ handlers' = "original"
    /\ UNCHANGED original_signal_handlers
    /\ loop' = "idle"
    /\ stage' = "idle"
    /\ IF ret = LOAD_FAILED
       THEN /\ cpc' = "aborted" /\ failure' = "Failed to load"
            /\ UNCHANGED <<doc, rendered>>
       ELSE IF ret = KILL_SIGNAL
       THEN /\ cpc' = "aborted" /\ failure' = "Kill signal received"
            /\ UNCHANGED <<doc, rendered>>
       ELSE IF pdf_data = NoData
       THEN /\ cpc' = "aborted" /\ failure' = "TypeError"
            /\ UNCHANGED <<doc, rendered>>
       ELSE /\ cpc' = "reconcile"
            /\ doc' = load(pdf_data)
            /\ rendered' = Append(rendered, pdf_data)
            /\ UNCHANGED failure
    /\ UNCHANGED <<container_log, layout, margin_groups, gidx, locs, pdf_doc, anchor_locations, num_pages, output>>
    /\ UNCHANGED <<ret, settle_time, timer, waited, page_layout, pdf_data, pipe, observed>>
    /\ UNCHANGED <<tocVars, anchorVars, groupVars>>

\* run_loop returns: restore_signal_handlers, then convert_html_file raises
\* SystemExit or returns pdf_data, which render_name loads.
RunLoopReturn ==
    /\ cpc = "loop"
    /\ loop = "exited"
    /\ handlers' = "original"
    /\ UNCHANGED original_signal_handlers
    /\ loop' = "idle"
    /\ stage' = "idle"
    /\ IF ret = LOAD_FAILED
       THEN /\ cpc' = "aborted" /\ failure' = "Failed to load"
            /\ UNCHANGED <<doc, rendered>>
       ELSE IF ret = KILL_SIGNAL
       THEN /\ cpc' = "aborted" /\ failure' = "Kill signal received"
            /\ UNCHANGED <<doc, rendered>>
       ELSE IF ret # OK
       THEN /\ cpc' = "aborted" /\ failure' = "Unknown error occurred"
            /\ UNCHANGED <<doc, rendered>>
       ELSE /\ cpc' = "reconcile"
            /\ doc' = load(pdf_data)
            /\ rendered' = Append(rendered, pdf_data)
            /\ UNCHANGED failure
    /\ UNCHANGED <<container_log, layout, margin_groups, gidx, locs, pdf_doc, anchor_locations, num_pages, output>>
    /\ UNCHANGED <<ret, settle_time, timer, waited, page_layout, pdf_data, pipe, observed>>
    /\ UNCHANGED <<tocVars, anchorVars, groupVars>>

\* ------------------------------------------------------------------ convert

\* Variant of get_anchor_locations that goes on without the marker.
get_anchor_locations_lenient ==
    /\ cpc = "reconcile"
    /\ LET anchors == doc.anchors
           toc_pagenum == IF MarkerId \in DOMAIN anchors
                          THEN anchors[MarkerId][1] ELSE Len(doc.pages) + 1
           rest == [a \in DOMAIN anchors \ {MarkerId} |-> anchors[a]]
       IN  /\ doc' = [doc EXCEPT !.pages = strip_marker_pages(doc.pages, toc_pagenum)]
           /\ locs' = shift_anchors(rest, num_pages + 1)
           /\ cpc' = "accumulate"
           /\ UNCHANGED failure
    /\ UNCHANGED <<container_log, layout, margin_groups, gidx, pdf_doc, anchor_locations, num_pages, output, rendered>>
    /\ UNCHANGED <<tocVars, anchorVars, groupVars, rendererVars>>

\* get_anchor_locations(doc, num_pages + 1, toc_uuid)
get_anchor_locations ==
    /\ cpc = "reconcile"
    /\ LET anchors == doc.anchors
       IN  IF MarkerId \notin DOMAIN anchors
           THEN /\ cpc' = "aborted"
                /\ failure' = "KeyError"
                /\ UNCHANGED <<doc, locs>>
           ELSE LET toc_pagenum == anchors[MarkerId][1]
                    rest == [a \in DOMAIN anchors \ {MarkerId} |-> anchors[a]]
                IN  /\ doc' = [doc EXCEPT
                                 !.pages = strip_marker_pages(doc.pages, toc_pagenum)]
                    /\ locs' = shift_anchors(rest, num_pages + 1)
                    /\ cpc' = "accumulate"
                    /\ UNCHANGED failure
    /\ UNCHANGED <<container_log, layout, margin_groups, gidx, pdf_doc, anchor_locations, num_pages, output, rendered>>
    /\ UNCHANGED <<tocVars, anchorVars, groupVars, rendererVars>>

\* Variant of Accumulate that counts the pages the group was rendered with.
Accumulate_RenderedCount ==
    /\ cpc = "accumulate"
    /\ anchor_locations' = update(anchor_locations, locs)
    /\ num_pages' = num_pages + rendered[Len(rendered)].npages
    /\ pdf_doc' = IF pdf_doc = NoDoc THEN doc
                  ELSE [pdf_doc EXCEPT !.pages = pdf_doc.pages \o doc.pages]
    /\ gidx' = gidx + 1
    /\ cpc' = "next"
    /\ UNCHANGED <<container_log, layout, margin_groups, doc, locs, output, failure, rendered>>
    /\ UNCHANGED <<tocVars, anchorVars, groupVars, rendererVars>>

\* Variant of Accumulate that puts the group's pages before the accumulated
\* ones.
Accumulate_Prepended ==
    /\ cpc = "accumulate"
    /\ anchor_locations' = update(anchor_locations, locs)
    /\ num_pages' = num_pages + Len(doc.pages)
    /\ pdf_doc' = IF pdf_doc = NoDoc THEN doc
                  ELSE [pdf_doc EXCEPT !.pages = doc.pages \o pdf_doc.pages]
    /\ gidx' = gidx + 1
    /\ cpc' = "next"
    /\ UNCHANGED <<container_log, layout, margin_groups, doc, locs, output, failure, rendered>>
    /\ UNCHANGED <<tocVars, anchorVars, groupVars, rendererVars>>

\* convert, lines 298-304: the table is merged, the pages are counted and
\* the group's document becomes, or is appended to, the final document.
Accumulate ==
    /\ cpc = "accumulate"
    /\ anchor_locations' = update(anchor_locations, locs)
    /\ num_pages' = num_pages + Len(doc.pages)
    /\ pdf_doc' = IF pdf_doc = NoDoc THEN doc
                  ELSE [pdf_doc EXCEPT !.pages = pdf_doc.pages \o doc.pages]
    /\ gidx' = gidx + 1
    /\ cpc' = "next"
    /\ UNCHANGED <<container_log, layout, margin_groups, doc, locs, output, failure, rendered>>
    /\ UNCHANGED <<tocVars, anchorVars, groupVars, rendererVars>>

CoverPage == <<0, 1>>

\* podofo: PDFDoc.insert_existing_page(src_doc), page 0 of src_doc put at the
\* front.
insert_existing_page(pages, src_pages) == <<src_pages[1]>> \o pages

\* Variant of add_cover that appends the cover document.
add_cover_appended(pages) == pages \o <<CoverPage>>

\* add_cover: the one-page cover document goes into pdf_doc.
add_cover(pages) == insert_existing_page(pages, <<CoverPage>>)

\* Variant of Finish that starts an empty document when there is none.
Finish_EmptyDocument ==
    /\ cpc = "next"
    /\ gidx = Len(margin_groups)
    /\ \E cover_data \in BOOLEAN, metadata \in BOOLEAN, output_path \in BOOLEAN :
          LET started == IF pdf_doc = NoDoc THEN [pages |-> <<>>, anchors |-> <<>>]
                         ELSE pdf_doc
          IN   /\ pdf_doc' = IF cover_data
                             THEN [started EXCEPT !.pages = add_cover(started.pages)]
                             ELSE started
               /\ output' = [kind |-> IF output_path THEN "written" ELSE "returned",
                             cover |-> cover_data,
                             metadata |-> metadata,
                             pages |-> pdf_doc'.pages]
               /\ cpc' = "done"
               /\ UNCHANGED failure
    /\ UNCHANGED <<container_log, layout, margin_groups, gidx, doc, locs, anchor_locations, num_pages, rendered>>
    /\ UNCHANGED <<tocVars, anchorVars, groupVars, rendererVars>>

\* convert, lines 308-322: the cover, the metadata and the output.  Without
\* a document every one of the three calls fails on None.
Finish ==
    /\ cpc = "next"
    /\ gidx = Len(margin_groups)
    /\ \E cover_data \in BOOLEAN, metadata \in BOOLEAN, output_path \in BOOLEAN :
          IF pdf_doc = NoDoc
          THEN /\ cpc' = "aborted"
               /\ failure' = "AttributeError"
               /\ UNCHANGED <<pdf_doc, output>>
          ELSE /\ pdf_doc' = IF cover_data
                             THEN [pdf_doc EXCEPT !.pages = add_cover(pdf_doc.pages)]
                             ELSE pdf_doc
               /\ output' = [kind |-> IF output_path THEN "written" ELSE "returned",
                             cover |-> cover_data,
                             metadata |-> metadata,
                             pages |-> pdf_doc'.pages]
               /\ cpc' = "done"
               /\ UNCHANGED failure
    /\ UNCHANGED <<container_log, layout, margin_groups, gidx, doc, locs, anchor_locations, num_pages, rendered>>
    /\ UNCHANGED <<tocVars, anchorVars, groupVars, rendererVars>>

Next ==
    \/ MakeAnchorsUnique
    \/ CreateMarginGroups
    \/ AddTocLinks
    \/ Commit
    \/ NewRenderer
    \/ RenderName
    \/ load_finished
    \/ TimePasses
    \/ print_to_pdf
    \/ printing_done
    \/ SignalArrives
    \/ signal_received
    \/ UnknownExit
    \/ RunLoopReturn
    \/ get_anchor_locations
    \/ Accumulate
    \/ Finish

Spec == Init /\ [][Next]_vars

\* ------------------------------------------------------------ add_toc_links

\* A falsy dest or frag of a ToC item: None or the empty text.
Falsy == ""

TocItems == [dest : {SectionName(1), SectionName(2), Falsy}, frag : {"a1", "a2", Falsy}]

Tocs == UNION { [1..n -> TocItems] : n \in 0..MaxToc }

\* The numbers of a set, ascending.
Ascending(S) ==
    CHOOSE s \in [1..Cardinality(S) -> S] : \A i, j \in 1..Cardinality(S) : i < j => s[i] < s[j]

\* group[0][0] of the margin groups of a spine: the first section always
\* opens a group, any later section may.
RepresentativeLists ==
    { <<>> } \cup
    { [k \in 1..(Cardinality(R) + 1) |-> SectionName(Ascending(R \cup {1})[k])] :
        R \in SUBSET (2..MaxSpine) }

\* The content a section's body holds before the pass.
Content == [tag |-> "p", id |-> "", style |-> "", children |-> <<>>]

\* The orders in which a set may be iterated.
Enumerations(S) ==
    { s \in [1..Cardinality(S) -> S] : \A i, j \in 1..Cardinality(S) : i # j => s[i] # s[j] }

\* name_anchor_map.setdefault(dest, set()).add(frag)
setdefault_add(map, dest, frag) ==
    IF dest \in DOMAIN map THEN [map EXCEPT ![dest] = @ \cup {frag}]
    ELSE map @@ (dest :> {frag})

\* name_anchor_map.get(name, set())
get(map, name) == IF name \in DOMAIN map THEN map[name] ELSE {}

A(href, text) == [tag |-> "a", href |-> href, text |-> text]

\* add_anchors_markup(root, uuid, anchors) on the children of root[-1], for
\* one order of iteration of anchors.
add_anchors_markup(children, uid, anchors) ==
    Append(children,
           [tag |-> "div", id |-> uid, style |-> "page-break-before: always",
            children |-> [i \in 1..Len(anchors) |-> A(<<"#", anchors[i]>>, ToString(i - 1))]
                         \o << A(<<"#", uid>>, "top") >>])

\* add_toc_links after uuid4() and name_anchor_map = {}.
InitToc ==
    /\ AnchorsIdle
    /\ GroupsIdle
    /\ ConvertIdle
    /\ toc \in Tocs
    /\ toc_groups \in RepresentativeLists
    /\ uuid = MarkerId
    /\ name_anchor_map = <<>>
    /\ ti = 0
    /\ tgi = 0
    /\ body = [n \in {SectionName(i) : i \in 1..MaxSpine} |-> <<Content>>]
    /\ dirty = {}
    /\ toc_ret = ""

\* Variant of TocItem that gathers the fragment of every item with a dest.
TocItem_NoFragCheck ==
    /\ ti < Len(toc)
    /\ LET item == toc[ti + 1]
       IN  IF item.dest # Falsy
           THEN name_anchor_map' = setdefault_add(name_anchor_map, item.dest, item.frag)
           ELSE UNCHANGED name_anchor_map
    /\ ti' = ti + 1
    /\ UNCHANGED <<toc, toc_groups, uuid, tgi, body, dirty, toc_ret>>
    /\ UNCHANGED <<anchorVars, groupVars, convertVars, rendererVars>>

\* One iteration of the loop over toc.iterdescendants().
TocItem ==
    /\ ti < Len(toc)
    /\ LET item == toc[ti + 1]
       IN  IF item.dest # Falsy /\ item.frag # Falsy
           THEN name_anchor_map' = setdefault_add(name_anchor_map, item.dest, item.frag)
           ELSE UNCHANGED name_anchor_map
    /\ ti' = ti + 1
    /\ UNCHANGED <<toc, toc_groups, uuid, tgi, body, dirty, toc_ret>>
    /\ UNCHANGED <<anchorVars, groupVars, convertVars, rendererVars>>

\* One iteration of the loop over margin_groups.
TocGroup ==
    /\ ti = Len(toc)
    /\ tgi < Len(toc_groups)
    /\ LET name    == toc_groups[tgi + 1]
           anchors == get(name_anchor_map, name)
       IN  /\ \E order \in Enumerations(anchors) :
                  body' = [body EXCEPT ![name] = add_anchors_markup(@, uuid, order)]
           /\ dirty' = dirty \cup {name}
    /\ tgi' = tgi + 1
    /\ UNCHANGED <<toc, toc_groups, uuid, name_anchor_map, ti, toc_ret>>
    /\ UNCHANGED <<anchorVars, groupVars, convertVars, rendererVars>>

\* return uuid
TocReturn ==
    /\ ti = Len(toc)
    /\ tgi = Len(toc_groups)
    /\ toc_ret = ""
    /\ toc_ret' = uuid
    /\ UNCHANGED <<toc, toc_groups, uuid, name_anchor_map, ti, tgi, body, dirty>>
    /\ UNCHANGED <<anchorVars, groupVars, convertVars, rendererVars>>

NextToc == TocItem \/ TocGroup \/ TocReturn

SpecToc == InitToc /\ [][NextToc]_vars

\* ------------------------------------------------- render_name's layouts

\* The margins a group may carry.
LayoutMargins ==
    { None, EmptyStr, Dict(<<>>), Dict(("top" :> 36)), Dict(("bottom" :> 0)),
      Dict(("left" :> 10) @@ ("top" :> 36)), Dict([d \in Dims |-> 18]) }

\* Margin groups over these margins: adjacent groups differ in their margins.
LayoutGroupLists ==
    UNION { { [i \in 1..n |-> <<SectionName(i), ms[i]>>] :
                ms \in { m \in [1..n -> LayoutMargins] :
                            \A i \in 1..(n - 1) : m[i] # m[i + 1] } } :
            n \in 0..MaxGroups }

\* convert at its loop, line 295, with the base layout of line 291.
InitLayout ==
    /\ AnchorsIdle
    /\ GroupsIdle
    /\ TocIdle
    /\ container_log = <<>>
    /\ layout = BaseLayout
    /\ margin_groups \in LayoutGroupLists
    /\ cpc = "layout"
    /\ gidx = 0 /\ doc = NoDoc /\ locs = <<>>
    /\ pdf_doc = NoDoc /\ anchor_locations = <<>> /\ num_pages = 0
    /\ output = <<>> /\ failure = "" /\ rendered = <<>>
    /\ handlers = "original" /\ original_signal_handlers = "unset" /\ loop = "idle" /\ ret = OK /\ stage = "idle"
    /\ settle_time = 0 /\ page_layout = <<>> /\ pdf_data = NoData
    /\ timer = -1 /\ waited = 0
    /\ pipe = FALSE /\ observed = FALSE

\* render_name for the next group, seen through its layouts only: the layout
\* it hands to the renderer and the one it leaves to convert.
RenderNameLayout ==
    /\ cpc = "layout"
    /\ gidx < Len(margin_groups)
    /\ page_layout' = render_name_layouts(margin_groups[gidx + 1][2], layout).renderer
    /\ layout' = render_name_layouts(margin_groups[gidx + 1][2], layout).caller
    /\ gidx' = gidx + 1
    /\ UNCHANGED <<container_log, margin_groups, cpc, doc, locs, pdf_doc, anchor_locations,
                   num_pages, output, failure, rendered>>
    /\ UNCHANGED <<handlers, original_signal_handlers, loop, ret, stage, settle_time, timer, waited, pdf_data,
                   pipe, observed>>
    /\ UNCHANGED <<tocVars, anchorVars, groupVars>>

NextLayout == RenderNameLayout

SpecLayout == InitLayout /\ [][NextLayout]_vars

(***************************************************************************)
(* Claims about make_anchors_unique, checked under SpecAnchors.            *)
(***************************************************************************)

Files == {mime_map[i] : i \in 1..Len(mime_map)}

\* The (section, fragment) a link with a fragment targets: a fragment-only
\* link targets its own file, any other link the file its href resolves to.
LinkTarget(url, file) ==
    IF StartsWithHash(url) THEN <<file, Text(Tail(url))>>
    ELSE <<href_to_name(partition(url)[1], file), Text(partition(url)[2])>>

\* The link with its fragment replaced and the rest kept.
WithFragment(url, frag) ==
    IF StartsWithHash(url) THEN <<"#", frag>>
    ELSE partition(url)[1] \o <<"#", frag>>

\* C1: after one pass over a document with N elements carrying an id, the
\* ids of those elements are pairwise distinct and are exactly a1..aN.
C1_IdsAreUniqueA1toN ==
    AnchorsDone =>
        LET all == AllIds(ids)
            N   == Len(all)
        IN  /\ \A i, j \in 1..N : i # j => all[i] # all[j]
            /\ {all[i] : i \in 1..N} = {AnchorId(k) : k \in 1..N}

\* C2: after the pass, every link of every file whose target (section,
\* fragment) was assigned a new id carries that new id and keeps its
\* non-fragment part.
C2_LinksFollowIds ==
    AnchorsDone =>
        \A f \in Files :
            LET u == links0[f]
            IN  (HasHash(u) /\ LinkTarget(u, f) \in DOMAIN mapping)
                    => links[f] = WithFragment(u, mapping[LinkTarget(u, f)])

RECURSIVE MembersFrom(_, _, _)
\* The sections of groups k.., in order, read from the merged files.
MembersFrom(gs, container, k) ==
    IF k > Len(gs) THEN <<>>
    ELSE container[gs[k][1][1]] \o MembersFrom(gs, container, k + 1)

\* The margins of the section named n.
MarginsOfSection(n) ==
    Margins(spine_attrs[CHOOSE i \in 1..Len(spine_attrs) : SectionName(i) = n])

\* C3: the groups returned partition the spine into maximal contiguous
\* runs of equal margins: in spine order, every section in exactly one
\* group, equal margins inside a group, different margins in adjacent groups.
C3_GroupsAreMaximalRuns ==
    gdone =>
        /\ MembersFrom(groups, merged, 1) = [i \in 1..Len(spine_attrs) |-> SectionName(i)]
        /\ \A k \in 1..Len(groups) :
               /\ Len(groups[k]) = 1
               /\ merged[groups[k][1][1]] # <<>>
               /\ merged[groups[k][1][1]][1] = groups[k][1][1]
               /\ \A m \in 1..Len(merged[groups[k][1][1]]) :
                      MarginsOfSection(merged[groups[k][1][1]][m]) = groups[k][1][2]
        /\ \A k \in 1..(Len(groups) - 1) : groups[k][1][2] # groups[k + 1][1][2]

\* C3 witness: a spine whose sections fall into a merged group of missing
\* margins followed by a group with an explicit override.
C3_Witness ==
    /\ gdone
    /\ Len(groups) >= 2
    /\ \E k \in 1..(Len(groups) - 1) :
           /\ Len(merged[groups[k][1][1]]) >= 2
           /\ groups[k][1][2] = None
           /\ groups[k + 1][1][2].kind = "dict"

(***************************************************************************)
(* Claims about convert and the Renderer, checked under Spec.              *)
(***************************************************************************)

\* The local page of the marker in the j-th rendered group.
MarkerPage(j) == rendered[j].anchors[MarkerId][1]

RECURSIVE KeptPages(_)
\* The sum over groups 1..i of the marker's local page minus one.
KeptPages(i) == IF i = 0 THEN 0 ELSE KeptPages(i - 1) + (MarkerPage(i) - 1)

\* C4: with i groups processed num_pages is the sum over groups 1..i of
\* (m_j - 1), and the pages of group i+1's anchors are their local pages
\* plus the count after group i.
C4_RunningPageCount ==
    /\ cpc # "idle" => num_pages = KeptPages(gidx)
    /\ cpc = "accumulate" =>
          \A a \in DOMAIN locs :
              locs[a][1] = rendered[gidx + 1].anchors[a][1] + KeptPages(gidx)

\* C4 witness: two groups are processed, the first one kept pages, and the
\* second one's anchor is in the table.
C4_Witness ==
    /\ cpc = "next"
    /\ gidx = 2
    /\ KeptPages(1) >= 1
    /\ MarkerPage(2) >= 2
    /\ AnchorId(2) \in DOMAIN anchor_locations

\* C5: after all groups are reconciled every page of the anchor table is
\* within 1 .. the page count of the accumulated document.
C5_AnchorPagesInRange ==
    (cpc = "next" /\ gidx = Len(margin_groups) /\ pdf_doc # NoDoc) =>
        \A a \in DOMAIN anchor_locations :
            /\ 1 <= anchor_locations[a][1]
            /\ anchor_locations[a][1] <= Len(pdf_doc.pages)

\* C6: get_anchor_locations returns a table without the MarkerId and leaves
\* the document with exactly the pages before the marker page; the MarkerId
\* is never in the accumulated table.
C6_MarkerStripped ==
    /\ cpc # "idle" => MarkerId \notin DOMAIN anchor_locations
    /\ cpc = "accumulate" =>
          /\ MarkerId \notin DOMAIN locs
          /\ doc.pages = [p \in 1..(MarkerPage(gidx + 1) - 1) |-> <<gidx + 1, p>>]

\* C6 witness: a three-page render with the marker on page 2 has been cut
\* to its first page.
C6_Witness ==
    /\ cpc = "accumulate"
    /\ rendered[gidx + 1].npages = 3
    /\ MarkerPage(gidx + 1) = 2
    /\ Len(doc.pages) = 1

\* The failure convert_html_file raises for an exit code.
FailureOf(code) ==
    IF code = LOAD_FAILED THEN "Failed to load"
    ELSE IF code = KILL_SIGNAL THEN "Kill signal received"
    ELSE "Unknown error occurred"

\* C7: a render that ends with any code but OK aborts convert with the
\* failure of that code; after the abort nothing more happens, and nothing
\* was returned or written.
C7_NonSuccessAborts ==
    /\ [][(cpc = "loop" /\ loop = "exited" /\ ret # OK) =>
              (/\ cpc' = "aborted"
               /\ failure' = FailureOf(ret)
               /\ pdf_doc' = pdf_doc
               /\ output' = <<>>)]_vars
    /\ [][cpc = "aborted" => UNCHANGED vars]_vars
    /\ [](cpc = "aborted" => output = <<>>)

\* C7 witness: the second group's render ended with an unknown code after
\* the first group was merged.
C7_Witness ==
    /\ cpc = "aborted"
    /\ failure = "Unknown error occurred"
    /\ gidx = 1
    /\ pdf_doc # NoDoc
    /\ output = <<>>

\* C8: the event loop exits once per invocation with one code, and once
\* signal_received has read the pipe the invocation ends with KILL_SIGNAL
\* and the kill failure, never with a document.
C8_SignalIsFatal ==
    /\ [](observed => \/ loop = "exited" /\ ret = KILL_SIGNAL
                      \/ cpc = "aborted" /\ failure = "Kill signal received")
    /\ [][loop = "exited" => (loop' = "idle" /\ ret' = ret)]_vars

\* C8 witness: signal_received read the pipe while pagination was under way.
C8_Witness ==
    /\ observed
    /\ loop = "exited"
    /\ stage = "printing"

\* C9: without the MarkerId in the anchors get_anchor_locations fails with
\* no page deleted and no entry added, and convert ends without output.
C9_MissingMarkerAborts ==
    /\ [][(cpc = "reconcile" /\ MarkerId \notin DOMAIN doc.anchors) =>
              (/\ cpc' = "aborted"
               /\ failure' = "KeyError"
               /\ doc' = doc
               /\ anchor_locations' = anchor_locations
               /\ pdf_doc' = pdf_doc
               /\ output' = <<>>)]_vars
    /\ [](failure = "KeyError" => cpc = "aborted" /\ output = <<>>)

\* C9 witness: the second group came back without the marker; its pages
\* are all there and the table holds only the first group's anchor.
C9_Witness ==
    /\ cpc = "aborted"
    /\ failure = "KeyError"
    /\ gidx = 1
    /\ Len(doc.pages) = rendered[2].npages
    /\ AnchorId(2) \in DOMAIN doc.anchors
    /\ DOMAIN anchor_locations = {AnchorId(1)}


(***************************************************************************)
(* Claims about add_toc_links (SpecToc), the layouts of render_name        *)
(* (SpecLayout) and a second run of make_anchors_unique                    *)
(* (SpecAnchorsTwice).                                                     *)
(***************************************************************************)

(***************************************************************************)
(* C11: when add_toc_links has returned, the body of every section that    *)
(* opens a group has got exactly one block appended, whose id is the       *)
(* returned marker id and whose links are one per distinct fragment of the *)
(* ToC items pointing at that section (items without a fragment and items  *)
(* of other sections give none) followed by one link to the marker id; no  *)
(* other section has changed.                                              *)
(***************************************************************************)
FragsOf(name) ==
    { toc[i].frag : i \in { k \in 1..Len(toc) : toc[k].dest = name /\ toc[k].frag # Falsy } }

C11_OneMarkerPerGroup ==
    toc_ret # "" =>
        /\ toc_ret = MarkerId
        /\ \A name \in DOMAIN body :
              IF \E g \in 1..Len(toc_groups) : toc_groups[g] = name
              THEN /\ Len(body[name]) = 2
                   /\ body[name][1] = Content
                   /\ LET block == body[name][2]
                          n     == Cardinality(FragsOf(name))
                      IN  /\ block.id = toc_ret
                          /\ Len(block.children) = n + 1
                          /\ { block.children[k].href : k \in 1..n } =
                                 { <<"#", f>> : f \in FragsOf(name) }
                          /\ block.children[n + 1].href = <<"#", toc_ret>>
              ELSE body[name] = <<Content>>

C11_Witness ==
    /\ toc_ret # ""
    /\ toc_groups = <<SectionName(1), SectionName(3)>>
    /\ \E i, j, k \in 1..Len(toc) :
          /\ i # j /\ toc[i] = toc[j]
          /\ toc[i].dest = SectionName(1) /\ toc[i].frag = "a1"
          /\ toc[k].dest = SectionName(2) /\ toc[k].frag = "a2"


(***************************************************************************)
(* C12: the layout render_name hands to the renderer has, in each of left, *)
(* top, right and bottom, the group's override where the override names    *)
(* that dimension and the base layout's margin otherwise; a missing or     *)
(* empty override gives the base layout itself; and convert's base layout  *)
(* is the same after every group.                                          *)
(***************************************************************************)
C12_EffectiveLayout ==
    (cpc = "layout" /\ gidx >= 1) =>
        LET m == margin_groups[gidx][2]
        IN  /\ layout = BaseLayout
            /\ \A d \in Dims :
                  page_layout[d] = IF m.kind = "dict" /\ d \in DOMAIN m.val
                                   THEN m.val[d] ELSE BaseLayout[d]
            /\ (m \in {None, EmptyStr, Dict(<<>>)}) => page_layout = BaseLayout

C12_Witness ==
    /\ cpc = "layout"
    /\ gidx = 2
    /\ margin_groups[1][2] = Dict(("left" :> 10) @@ ("top" :> 36))
    /\ margin_groups[2][2] = EmptyStr
    /\ page_layout = BaseLayout


(***************************************************************************)
(* C13: when a second run of make_anchors_unique over a container it has   *)
(* already processed has returned, every element id and every link is what *)
(* it was before that run, repeated raw ids in a section included.         *)
(***************************************************************************)
C13_SecondRunChangesNothing ==
    (pass = 2 /\ AnchorsDone) => (ids = ids0 /\ links = links0)


(***************************************************************************)
(* Further claims about convert and the Renderer, checked under Spec.      *)
(***************************************************************************)

(***************************************************************************)
(* C14: when the finisher is given cover bytes, the document it serializes *)
(* has one page more than the accumulated document, the cover is its first *)
(* page and every page p of the accumulated document is its page p + 1;    *)
(* without cover bytes its pages are those of the accumulated document.    *)
(***************************************************************************)
C14_CoverGoesFirst ==
    [][(cpc = "next" /\ cpc' = "done") =>
          /\ output'.pages = pdf_doc'.pages
          /\ IF output'.cover
             THEN /\ Len(pdf_doc'.pages) = Len(pdf_doc.pages) + 1
                  /\ pdf_doc'.pages[1] = CoverPage
                  /\ \A p \in 1..Len(pdf_doc.pages) : pdf_doc'.pages[p + 1] = pdf_doc.pages[p]
             ELSE pdf_doc'.pages = pdf_doc.pages]_vars

C14_Witness ==
    /\ cpc = "done"
    /\ output.cover
    /\ Len(output.pages) >= 3
    /\ output.pages[1] = CoverPage


(***************************************************************************)
(* C15: the installed signal handlers are other than the original ones     *)
(* only between the entry into run_loop and its return, whatever the code  *)
(* the event loop exited with: before the first render, between renders    *)
(* and after convert has ended the original handlers are installed.        *)
(***************************************************************************)
C15_HandlersOriginalOutsideLoop ==
    (cpc # "loop") => handlers = "original"


RECURSIVE PagesOfGroups(_)
\* The pages before the marker page of groups 1..i, group after group.
PagesOfGroups(i) ==
    IF i = 0 THEN <<>>
    ELSE PagesOfGroups(i - 1) \o [p \in 1..(MarkerPage(i) - 1) |-> <<i, p>>]

\* The pages of the accumulating document, none while it is None.
PagesOf(d) == IF d = NoDoc THEN <<>> ELSE d.pages

(***************************************************************************)
(* C16: the event loop runs only inside a render of convert's loop, and    *)
(* while group N+1 is rendered or reconciled the renders of groups 1..N    *)
(* have all returned, in group order, and the accumulated document holds   *)
(* exactly their truncated pages in that order; so does the document the   *)
(* finisher gets.                                                          *)
(***************************************************************************)
C16_OneGroupAtATime ==
    /\ loop # "idle" => (cpc = "loop" /\ Len(rendered) = gidx)
    /\ \A j \in 1..Len(rendered) : rendered[j].group = j
    /\ cpc \in {"loop", "reconcile", "accumulate"} =>
          /\ gidx < Len(margin_groups)
          /\ Len(rendered) \in {gidx, gidx + 1}
          /\ PagesOf(pdf_doc) = PagesOfGroups(gidx)
    /\ cpc = "next" => (Len(rendered) = gidx /\ PagesOf(pdf_doc) = PagesOfGroups(gidx))
    /\ cpc = "done" =>
          output.pages = (IF output.cover THEN <<CoverPage>> ELSE <<>>)
                             \o PagesOfGroups(Len(margin_groups))

C16_Witness ==
    /\ cpc = "done"
    /\ Len(margin_groups) = 2
    /\ MarkerPage(1) >= 2
    /\ MarkerPage(2) >= 2
    /\ PagesOf(pdf_doc)[1][1] = 1
    /\ PagesOf(pdf_doc)[Len(PagesOf(pdf_doc))][1] = 2


(***************************************************************************)
(* C17: once convert has reached the Renderer, and so before any render,   *)
(* the container has been through make_anchors_unique,                     *)
(* create_margin_groups, add_toc_links and commit, in this order; from the *)
(* commit on nothing is done to the container; and the marker block keeps  *)
(* the id add_toc_links gave it.                                           *)
(***************************************************************************)
C17_CommitBeforeRender ==
    /\ [](((cpc \notin {"start", "anchors", "groups", "toc"}) \/ loop # "idle"
                \/ rendered # <<>>) =>
            /\ container_log.committed
            /\ container_log.ops = <<"make_anchors_unique", "create_margin_groups",
                                     "add_toc_links", "commit">>)
    /\ [][container_log.committed => container_log' = container_log]_vars
    /\ [](container_log.marker \in {"", MarkerId})
    /\ [](container_log.committed => container_log.marker = MarkerId)

C17_Witness ==
    /\ cpc = "done"
    /\ Len(rendered) = 2
    /\ container_log.committed
    /\ container_log.marker = MarkerId


(***************************************************************************)
(* C18: in a render, print_to_pdf starts only from the state a successful  *)
(* load leaves, with settle_time 1 and after the timer's 1000 ms have      *)
(* passed since the load finished; after a failed load the event loop has  *)
(* exited with LOAD_FAILED, nothing was printed and print_to_pdf does not  *)
(* start before the render ends.                                           *)
(***************************************************************************)
C18_PrintAfterSettle ==
    /\ [][(stage' = "printing" /\ stage # "printing") =>
             /\ stage = "settling"
             /\ settle_time = 1
             /\ waited >= Millis]_vars
    /\ [](stage = "failed" => (loop = "exited" /\ ret = LOAD_FAILED /\ pdf_data = NoData))
    /\ [][stage = "failed" => stage' \in {"failed", "idle"}]_vars

C18_Witness ==
    /\ stage = "printing"
    /\ waited = Millis
    /\ gidx = 1


(***************************************************************************)
(* C19: when the event loop has exited with OK, and when convert_html_file *)
(* has returned, Renderer.pdf_data is set and is the data printing_done    *)
(* was handed in this very render: it carries the number of the group      *)
(* being rendered, never that of an earlier one.                           *)
(***************************************************************************)
C19_DataOfThisRender ==
    /\ (loop = "exited" /\ ret = OK) => (pdf_data # NoData /\ pdf_data.group = gidx + 1)
    /\ cpc \in {"reconcile", "accumulate"} =>
          /\ Len(rendered) = gidx + 1
          /\ rendered[gidx + 1] # NoData
          /\ rendered[gidx + 1] = pdf_data
          /\ rendered[gidx + 1].group = gidx + 1
    /\ cpc = "reconcile" => doc = load(rendered[gidx + 1])

C19_Witness ==
    /\ cpc = "reconcile"
    /\ gidx = 1
    /\ rendered[2].group = 2
    /\ rendered[1] # rendered[2]


(***************************************************************************)
(* C20: when convert reaches the finisher the accumulated document exists  *)
(* exactly if a group was rendered; with no margin groups there is never a *)
(* render nor an output, and the finisher's step ends convert with an      *)
(* exception whatever the cover bytes, the metadata and the output path.   *)
(***************************************************************************)
C20_NoGroupsNoDocument ==
    /\ []((cpc = "next" /\ gidx = Len(margin_groups)) =>
             ((pdf_doc # NoDoc) <=> (Len(rendered) >= 1)))
    /\ [](margin_groups = <<>> =>
             (rendered = <<>> /\ loop = "idle" /\ output = <<>> /\ cpc # "done"))
    /\ [][(cpc = "next" /\ margin_groups = <<>> /\ cpc' # cpc) =>
             (cpc' = "aborted" /\ failure' # "" /\ output' = <<>>)]_vars

C20_Witness ==
    /\ cpc = "aborted"
    /\ container_log.committed
    /\ margin_groups = <<>>
    /\ failure = "AttributeError"
    /\ output = <<>>

=============================================================================
